---- MODULE Spec2Model ----
(***************************************************************************)
(* app.py of ChatModelSelector: a Streamlit script that resolves an Entra  *)
(* ID credential through a fixed chain of strategies, lists the model      *)
(* deployments of one Azure OpenAI account and stops when none is usable.  *)
(* The script is executed top to bottom; Streamlit executes it again on    *)
(* every user interaction (Rerun).  Calls into the Azure SDK are the       *)
(* environment: each may return or raise.                                  *)
(***************************************************************************)
EXTENDS Integers, Sequences, FiniteSets, TLC

VARIABLES
    env,                \* os.environ after load_dotenv(): key -> None | Some(string)
    dockerenv,          \* os.path.exists('/.dockerenv')
    certReadable,       \* the file at AZURE_CLIENT_CERTIFICATE_PATH exists and loads
    interactiveLoginOk, \* an interactive browser login would succeed here
    pc,                 \* position of the script
    runs,               \* executions of the script in this process
    resolveCalls,       \* calls of create_azure_credential in this process
    attempts,           \* create_azure_credential: strategies attempted, with outcome
    tokenRequests,      \* create_azure_credential: get_token calls issued
    test_token,         \* create_azure_credential: local test_token of Method 6
    ret,                \* create_azure_credential: the returned credential
    exc,                \* the exception in flight: None | Some(str(e))
    azure_credential,   \* script global azure_credential
    deployments,        \* script global deployments
    deployment_count,   \* script global deployment_count
    iterFailed,         \* the for loop over results raised in this execution
    error_str,          \* script global error_str of the except handler
    kind,               \* the branch of the except handler's if/elif chain taken
    detail,             \* the text shown by "Error details: ..." (None when not shown)
    ui,                 \* the Streamlit status messages shown in this execution
    shownCount,         \* N of "Found N deployment(s)" (0 when not shown)
    model,              \* the deployment selected in st.selectbox
    clientCalls,        \* CognitiveServicesManagementClient(...) calls in this execution
    listCalls,          \* client2.deployments.list(...) calls in this execution
    apiPages,           \* the pages of deployments the API has returned to the loop
    event,              \* the interaction that started this execution
    session_state       \* st.session_state: key -> value

vars == <<env, dockerenv, certReadable, interactiveLoginOk, pc, runs, resolveCalls,
          attempts, tokenRequests, test_token, ret, exc, azure_credential, deployments,
          deployment_count, iterFailed, error_str, kind, detail, ui, shownCount, model,
          clientCalls, listCalls, apiPages, event, session_state>>

envVars == <<env, dockerenv, certReadable, interactiveLoginOk>>
frameVars == <<attempts, tokenRequests, test_token, ret>>
listVars == <<deployments, deployment_count, iterFailed, shownCount, model>>
handlerVars == <<error_str, kind, detail>>
callVars == <<clientCalls, listCalls, apiPages>>
chatVars == <<event, session_state>>

(***************************************************************************)
(* Bounds of the model.                                                    *)
(***************************************************************************)
MaxRuns == 2            \* executions of the script per process
MaxDeployments == 2     \* deployments the API returns
MaxFrags == 2           \* fragments an SDK error text is made of

(***************************************************************************)
(* Python values: None, strings, truthiness, str.lower, substring test.    *)
(***************************************************************************)
None == <<>>
Some(s) == <<s>>

\* a dict without keys
NoKeys == [k \in {} |-> <<>>]

\* os.getenv(key, default)
GetEnv(key, default) == IF env[key] = None THEN default ELSE env[key][1]

\* bool(os.getenv(key)): None and '' are falsy
Truthy(v) == v # None /\ v[1] # ""

UpperLetters == "ABCDEFGHIJKLMNOPQRSTUVWXYZ"
LowerLetters == "abcdefghijklmnopqrstuvwxyz"

LowerChar(c) ==
    IF \E i \in 1..Len(UpperLetters) : SubSeq(UpperLetters, i, i) = c
    THEN LET i == CHOOSE j \in 1..Len(UpperLetters) : SubSeq(UpperLetters, j, j) = c
         IN  SubSeq(LowerLetters, i, i)
    ELSE c

RECURSIVE Lower(_)
\* str.lower()
Lower(s) == IF s = "" THEN ""
            ELSE LowerChar(SubSeq(s, 1, 1)) \o Lower(SubSeq(s, 2, Len(s)))

\* sub in s
Contains(s, sub) ==
    \E i \in 1..(Len(s) - Len(sub) + 1) : SubSeq(s, i, i + Len(sub) - 1) = sub


(***************************************************************************)
(* The environments the executions start from.                             *)
(***************************************************************************)
\* every combination of the authentication settings create_azure_credential reads
ResolveEnvs ==
    [AZURE_OPENAI_ENDPOINT : {Some("https://aoai")},
     AZURE_OPENAI_KEY : {Some("key")},
     SUBSCRIPTION_ID : {Some("sub")},
     RESOURCE_GROUP_NAME : {Some("rg")},
     AOAI_ACCOUNT_NAME : {Some("aoai")},
     USE_MANAGED_IDENTITY : {None, Some("True")},
     AZURE_CLIENT_ID : {None, Some(""), Some("app-id")},
     AZURE_CLIENT_SECRET : {None, Some("secret")},
     AZURE_TENANT_ID : {None, Some("tenant")},
     AZURE_CLIENT_CERTIFICATE_PATH : {None, Some("/cert.pem")},
     USE_INTERACTIVE_AUTH : {Some("false"), Some("TRUE")},
     USE_DEVICE_CODE : {Some("1"), Some("true")},
     DOCKER_CONTAINER : {None, Some("true"), Some("True")}]

\* the settings of the whole-script executions
ScriptEnvs ==
    [AZURE_OPENAI_ENDPOINT : {Some("https://aoai")},
     AZURE_OPENAI_KEY : {Some("key"), Some("")},
     SUBSCRIPTION_ID : {Some("sub"), None},
     RESOURCE_GROUP_NAME : {Some("rg")},
     AOAI_ACCOUNT_NAME : {Some("aoai")},
     USE_MANAGED_IDENTITY : {None, Some("True")},
     AZURE_CLIENT_ID : {None, Some("app-id")},
     AZURE_CLIENT_SECRET : {None},
     AZURE_TENANT_ID : {Some("tenant")},
     AZURE_CLIENT_CERTIFICATE_PATH : {None},
     USE_INTERACTIVE_AUTH : {Some("TRUE")},
     USE_DEVICE_CODE : {Some("1")},
     DOCKER_CONTAINER : {None, Some("true")}]

\* the texts str(e) of an exception raised by the management SDK: up to MaxFrags
\* fragments, among them the error codes the except handler looks for
Fragments ==
    {"ResourceNotFound", "SubscriptionNotFound", "NotFound", "AuthenticationFailed",
     "Unauthorized", "Forbidden", "InsufficientPermissions", "Timeout"}

RECURSIVE TextsOf(_)
TextsOf(n) ==
    IF n = 0 THEN {""}
    ELSE TextsOf(n - 1) \cup {t \o f : t \in TextsOf(n - 1), f \in Fragments}

ErrorTexts == TextsOf(MaxFrags)

DeploymentNames == {"gpt-4", "gpt-35-turbo", "gpt-4o"}

(***************************************************************************)
(* create_azure_credential                                                 *)
(***************************************************************************)
Strategies == 1..7
StrategyName ==
    <<"ManagedIdentity", "ServicePrincipalSecret", "ServicePrincipalCertificate",
      "InteractiveBrowser", "DeviceCode", "AzureCli", "DefaultChain">>

NoCredential == [strategy |-> 0, identity |-> None, serial |-> 0]

\* the label of "# Method i" in create_azure_credential
Method(i) == <<"method1", "method2", "method3", "method4", "method5", "method6",
               "method7">>[i]

\* 'true' == os.getenv(key, 'false').lower()
Flag(key) == Lower(GetEnv(key, "false")) = "true"

\* the if conditions that guard the strategies
IsApplicable(i) ==
    CASE i = 1 -> Flag("USE_MANAGED_IDENTITY")
      [] i = 2 -> /\ Truthy(env.AZURE_CLIENT_ID)
                  /\ Truthy(env.AZURE_CLIENT_SECRET)
                  /\ Truthy(env.AZURE_TENANT_ID)
      [] i = 3 -> /\ Truthy(env.AZURE_CLIENT_ID)
                  /\ Truthy(env.AZURE_TENANT_ID)
                  /\ Truthy(env.AZURE_CLIENT_CERTIFICATE_PATH)
      [] i = 4 -> /\ Flag("USE_INTERACTIVE_AUTH")
                  /\ Truthy(env.AZURE_CLIENT_ID)
                  /\ Truthy(env.AZURE_TENANT_ID)
      [] i = 5 -> /\ Flag("USE_DEVICE_CODE")
                  /\ Truthy(env.AZURE_CLIENT_ID)
                  /\ Truthy(env.AZURE_TENANT_ID)
      [] i = 6 -> ~(dockerenv \/ env.DOCKER_CONTAINER = Some("true"))
      [] i = 7 -> TRUE

\* the credential object strategy i constructs
Credential(i) ==
    [strategy |-> i,
     identity |-> IF i \in 1..5 /\ Truthy(env.AZURE_CLIENT_ID)
                  THEN env.AZURE_CLIENT_ID ELSE None,
     serial |-> resolveCalls]

\* what the import and the constructor of strategy i's credential class can do;
\* CertificateCredential loads the certificate file when it is constructed
ConstructOutcomes(i) ==
    IF i = 3 /\ ~certReadable THEN {"raise"} ELSE {"ok", "raise"}

\* "return credential": where control goes when strategy i succeeded
AfterSuccessFallsThrough(i) == IF i = 1 THEN Method(2) ELSE "return"
AfterSuccess(i) == "return"

\* "except Exception as e: print(...)": where control goes when strategy i failed
AfterFailureCertUncaught(i) ==
    IF i = 7 \/ i = 3 THEN "except" ELSE Method(i + 1)
AfterFailureDefaultReturns(i) == IF i = 7 THEN "return" ELSE Method(i + 1)
AfterFailureInteractiveUncaught(i) ==
    IF i = 7 \/ i = 4 THEN "except" ELSE Method(i + 1)
AfterFailure(i) == IF i = 7 THEN "except" ELSE Method(i + 1)

\* the exception that leaves the function when strategy i failed
AllFailedMsg == "All authentication methods failed. Please check your Entra ID configuration."
Raised(i) == IF AfterFailure(i) = "except" THEN Some(AllFailedMsg) ELSE None

Outcome(i, o) == [strategy |-> i, outcome |-> o]

\* Methods 1 to 5 and the fallback: if applicable, construct the credential and
\* return it; an exception is printed and the next method is tried
TryConstruct(i) ==
    /\ pc = Method(i)
    /\ IF ~IsApplicable(i)
       THEN /\ pc' = Method(i + 1)
            /\ UNCHANGED <<attempts, ret, exc>>
       ELSE \E o \in ConstructOutcomes(i) :
              IF o = "ok"
              THEN /\ attempts' = Append(attempts, Outcome(i, "Success"))
                   /\ ret' = Credential(i)
                   /\ pc' = AfterSuccess(i)
                   /\ UNCHANGED exc
              ELSE /\ attempts' = Append(attempts, Outcome(i, "Failed"))
                   /\ pc' = AfterFailure(i)
                   /\ exc' = Raised(i)
                   /\ UNCHANGED ret
    /\ UNCHANGED <<envVars, chatVars, callVars, runs, resolveCalls, tokenRequests, test_token,
                   azure_credential, listVars, handlerVars, ui>>

TryManagedIdentity == TryConstruct(1)
TryServicePrincipalSecret == TryConstruct(2)
TryCertificate == TryConstruct(3)
TryInteractiveBrowser == TryConstruct(4)
TryDeviceCode == TryConstruct(5)
TryDefaultChain == TryConstruct(7)

\* credential.get_token("https://management.azure.com/.default"): a token, a
\* falsy result, or an exception
TokenOutcomes == {"token", "empty", "raise"}

\* "if test_token:"
TokenAcceptedAlways(t) == t # "raise"
TokenAccepted(t) == t = "token"

\* Method 6: skipped in a container; otherwise AzureCliCredential() is probed with
\* one get_token call and returned only if that yields a token
TryAzureCli ==
    /\ pc = Method(6)
    /\ IF ~IsApplicable(6)
       THEN /\ pc' = Method(7)
            /\ UNCHANGED <<attempts, ret, tokenRequests, test_token>>
       ELSE \E o \in ConstructOutcomes(6), t \in TokenOutcomes :
              IF o = "ok"
              THEN /\ tokenRequests' = tokenRequests + 1
                   /\ test_token' = IF t = "raise" THEN test_token ELSE t
                   /\ IF TokenAccepted(t)
                      THEN /\ attempts' = Append(attempts, Outcome(6, "Success"))
                           /\ ret' = Credential(6)
                           /\ pc' = AfterSuccess(6)
                      ELSE /\ attempts' = Append(attempts, Outcome(6, "Failed"))
                           /\ pc' = AfterFailure(6)
                           /\ UNCHANGED ret
              ELSE /\ attempts' = Append(attempts, Outcome(6, "Failed"))
                   /\ pc' = AfterFailure(6)
                   /\ UNCHANGED <<ret, tokenRequests, test_token>>
    /\ UNCHANGED <<envVars, chatVars, callVars, runs, resolveCalls, exc, azure_credential,
                   listVars, handlerVars, ui>>

(***************************************************************************)
(* The script                                                              *)
(***************************************************************************)
RequiredVars ==
    {"AZURE_OPENAI_ENDPOINT", "AZURE_OPENAI_KEY", "SUBSCRIPTION_ID",
     "RESOURCE_GROUP_NAME", "AOAI_ACCOUNT_NAME"}

\* missing_vars = [var for var, value in required_vars.items() if not value]
MissingVars == {k \in RequiredVars : ~Truthy(env[k])}

\* "# Validate required parameters": st.stop() when a required variable is missing
ValidateRequired ==
    /\ pc = "start"
    /\ IF MissingVars # {}
       THEN /\ ui' = ui \cup {"missingVars"}
            /\ pc' = "stopped"
       ELSE /\ pc' = "openai"
            /\ UNCHANGED ui
    /\ UNCHANGED <<envVars, chatVars, callVars, runs, resolveCalls, frameVars, exc, azure_credential,
                   listVars, handlerVars>>

\* client = AzureOpenAI(...): st.stop() when the constructor raises
CreateOpenAIClient ==
    /\ pc = "openai"
    /\ \E ok \in BOOLEAN :
         IF ok
         THEN /\ pc' = "auth"
              /\ UNCHANGED ui
         ELSE /\ ui' = ui \cup {"openaiInitFailed"}
              /\ pc' = "stopped"
    /\ UNCHANGED <<envVars, chatVars, callVars, runs, resolveCalls, frameVars, exc, azure_credential,
                   listVars, handlerVars>>

\* try: azure_credential = create_azure_credential(): the call
CallCreateAzureCredential ==
    /\ pc = "auth"
    /\ pc' = Method(1)
    /\ resolveCalls' = resolveCalls + 1
    /\ UNCHANGED <<envVars, chatVars, callVars, runs, frameVars, exc, azure_credential, listVars,
                   handlerVars, ui>>

\* the call returns: azure_credential is bound, the function's locals are gone, and
\* client2 = CognitiveServicesManagementClient(...) is constructed
CreateManagementClient ==
    /\ pc = "return"
    /\ azure_credential' = ret
    /\ clientCalls' = clientCalls + 1
    /\ attempts' = <<>>
    /\ tokenRequests' = 0
    /\ test_token' = "unbound"
    /\ ret' = NoCredential
    /\ \/ /\ pc' = "list"
          /\ UNCHANGED exc
       \/ \E t \in ErrorTexts :
            /\ exc' = Some(t)
            /\ pc' = "except"
    /\ UNCHANGED <<envVars, chatVars, runs, resolveCalls, listVars, handlerVars, ui,
                   listCalls, apiPages>>

\* the page fetches of results need a token of azure_credential; an
\* InteractiveBrowserCredential logs in at its first get_token
CredentialUsable ==
    ~(azure_credential.strategy = 4 /\ ~interactiveLoginOk)

\* results = client2.deployments.list(...); deployments = []; deployment_count = 0
ListDeployments ==
    /\ pc = "list"
    /\ listCalls' = listCalls + 1
    /\ \/ /\ deployments' = <<>>
          /\ deployment_count' = 0
          /\ pc' = "iter"
          /\ UNCHANGED exc
       \/ \E t \in ErrorTexts :
            /\ exc' = Some(t)
            /\ pc' = "except"
            /\ UNCHANGED <<deployments, deployment_count>>
    /\ UNCHANGED <<envVars, chatVars, runs, resolveCalls, frameVars, azure_credential,
                   iterFailed, shownCount, model, handlerVars, ui, clientCalls,
                   apiPages>>

Range(f) == {f[i] : i \in DOMAIN f}

\* deployments.append(item.name)
CollectFront(ds, n) == <<n>> \o ds
Collect(ds, n) == Append(ds, n)

\* the pages returned so far, after the next item n arrived: in the page being
\* consumed, or as the first item of a newly fetched page
PageItem(pages, n, newPage) ==
    IF newPage \/ pages = <<>>
    THEN Append(pages, <<n>>)
    ELSE [pages EXCEPT ![Len(pages)] = Append(@, n)]

\* for item in results: one step of the loop: the next item, the end of the
\* results, or an exception, which empties deployments
IterateResults ==
    /\ pc = "iter"
    /\ \/ \E n \in DeploymentNames \ Range(deployments), newPage \in BOOLEAN :
            /\ CredentialUsable
            /\ Len(deployments) < MaxDeployments
            /\ apiPages' = PageItem(apiPages, n, newPage)
            /\ deployments' = Collect(deployments, n)
            /\ deployment_count' = deployment_count + 1
            /\ UNCHANGED <<pc, iterFailed>>
       \/ /\ CredentialUsable
          /\ pc' = "report"
          /\ UNCHANGED <<deployments, deployment_count, iterFailed, apiPages>>
       \/ /\ deployments' = <<>>
          /\ iterFailed' = TRUE
          /\ pc' = "report"
          /\ UNCHANGED <<deployment_count, apiPages>>
    /\ UNCHANGED <<envVars, chatVars, runs, resolveCalls, frameVars, exc,
                   azure_credential, shownCount, model, handlerVars, ui, clientCalls,
                   listCalls>>

\* "if deployment_count > 0: st.success(... Found N ...) else: st.warning(...)"
ReportCount ==
    /\ pc = "report"
    /\ IF deployment_count > 0
       THEN /\ ui' = ui \cup {"foundDeployments"}
            /\ shownCount' = deployment_count
       ELSE /\ ui' = ui \cup {"connectedNoDeployments"}
            /\ UNCHANGED shownCount
    /\ pc' = "gate"
    /\ UNCHANGED <<envVars, chatVars, callVars, runs, resolveCalls, frameVars, exc, azure_credential,
                   deployments, deployment_count, iterFailed, model, handlerVars>>


\* the if/elif chain of the except handler: the first branch whose code is found
\* in error_str
ClassifyAuthenticationFirst(s) ==
    IF Contains(s, "AuthenticationFailed") \/ Contains(s, "Unauthorized")
    THEN "AuthenticationFailed"
    ELSE IF Contains(s, "ResourceNotFound") \/ Contains(s, "NotFound")
    THEN "ResourceNotFound"
    ELSE IF Contains(s, "Forbidden") \/ Contains(s, "InsufficientPermissions")
    THEN "Forbidden"
    ELSE IF Contains(s, "SubscriptionNotFound")
    THEN "SubscriptionNotFound"
    ELSE "Unknown"
Classify(s) ==
    IF Contains(s, "ResourceNotFound") \/ Contains(s, "NotFound")
    THEN "ResourceNotFound"
    ELSE IF Contains(s, "AuthenticationFailed") \/ Contains(s, "Unauthorized")
    THEN "AuthenticationFailed"
    ELSE IF Contains(s, "Forbidden") \/ Contains(s, "InsufficientPermissions")
    THEN "Forbidden"
    ELSE IF Contains(s, "SubscriptionNotFound")
    THEN "SubscriptionNotFound"
    ELSE "Unknown"

\* except Exception as e: the failure is shown by kind and deployments = []
HandleException ==
    /\ pc = "except"
    /\ error_str' = exc
    /\ kind' = Classify(exc[1])
    /\ detail' = IF kind' = "Unknown" THEN exc ELSE None
    /\ ui' = ui \cup {"failedToRetrieve"}
    /\ deployments' = <<>>
    /\ exc' = None
    /\ pc' = "gate"
    /\ UNCHANGED <<envVars, chatVars, callVars, runs, resolveCalls, frameVars, azure_credential,
                   deployment_count, iterFailed, shownCount, model>>

\* "if not deployments: ... st.stop()"
CheckDeployments ==
    /\ pc = "gate"
    /\ IF deployments = <<>>
       THEN /\ ui' = ui \cup {"noDeployments", "appStopped"}
            /\ pc' = "stopped"
       ELSE /\ pc' = "select"
            /\ UNCHANGED ui
    /\ UNCHANGED <<envVars, chatVars, callVars, runs, resolveCalls, frameVars, exc, azure_credential,
                   listVars, handlerVars>>

\* model = st.selectbox('Select Model Deployment:', deployments)
SelectModel ==
    /\ pc = "select"
    /\ \E n \in Range(deployments) : model' = Some(n)
    /\ pc' = "done"
    /\ UNCHANGED <<envVars, chatVars, callVars, runs, resolveCalls, frameVars, exc, azure_credential,
                   deployments, deployment_count, iterFailed, shownCount,
                   handlerVars, ui>>

\* Streamlit executes the script again, top to bottom, in the same process: the
\* script's globals are new, st.session_state is kept
StartExecution(ev) ==
    /\ runs < MaxRuns
    /\ runs' = runs + 1
    /\ pc' = "start"
    /\ attempts' = <<>>
    /\ tokenRequests' = 0
    /\ test_token' = "unbound"
    /\ ret' = NoCredential
    /\ exc' = None
    /\ azure_credential' = NoCredential
    /\ deployments' = <<>>
    /\ deployment_count' = 0
    /\ iterFailed' = FALSE
    /\ error_str' = None
    /\ kind' = "none"
    /\ detail' = None
    /\ ui' = {}
    /\ shownCount' = 0
    /\ model' = None
    /\ clientCalls' = 0
    /\ listCalls' = 0
    /\ apiPages' = <<>>
    /\ event' = ev
    /\ UNCHANGED <<envVars, resolveCalls, session_state>>

\* a page refresh or a change of a widget other than the two buttons
Rerun ==
    /\ pc \in {"stopped", "done"}
    /\ StartExecution("none")

(***************************************************************************)
(* The chat: session state, Clear Conversation, Send                       *)
(***************************************************************************)
default_prompt == "You are an AI assistant that helps users write concise reports"

\* seed_message = {"role": "system", "content": system_prompt}
seed_message == [role |-> "system", content |-> default_prompt]

Message(r, c) == [role |-> r, content |-> c]

\* if key not in st.session_state: st.session_state[key] = value
SetDefault(ss, key, value) ==
    IF key \in DOMAIN ss THEN ss
    ELSE [k \in DOMAIN ss \cup {key} |-> IF k = key THEN value ELSE ss[k]]

\* st.session_state[key] = value
SetKey(ss, key, value) ==
    [k \in DOMAIN ss \cup {key} |-> IF k = key THEN value ELSE ss[k]]

\* "# Session management"
InitSessionState ==
    /\ pc = "done"
    /\ session_state' =
         SetDefault(SetDefault(SetDefault(SetDefault(SetDefault(SetDefault(SetDefault(
             session_state,
             "generated", <<>>), "past", <<>>), "messages", <<seed_message>>),
             "model_name", <<>>), "cost", <<>>), "total_tokens", <<>>),
             "total_cost", 0)
    /\ pc' = "clear"
    /\ UNCHANGED <<envVars, event, callVars, runs, resolveCalls, frameVars, exc,
                   azure_credential, listVars, handlerVars, ui>>

\* "if clear_button:"
ClearConversation ==
    /\ pc = "clear"
    /\ session_state' =
         IF event = "clear"
         THEN SetKey(SetKey(SetKey(SetKey(SetKey(SetKey(SetKey(SetKey(
                  session_state,
                  "generated", <<>>), "past", <<>>), "messages", <<seed_message>>),
                  "number_tokens", <<>>), "model_name", <<>>), "cost", <<>>),
                  "total_cost", 0), "total_tokens", <<>>)
         ELSE session_state
    /\ pc' = "form"
    /\ UNCHANGED <<envVars, event, callVars, runs, resolveCalls, frameVars, exc,
                   azure_credential, listVars, handlerVars, ui>>

UserInputs == {"", "hello"}

\* what client.chat.completions.create returns
Completions == {[content |-> "answer", total_tokens |-> 12]}

\* cost = total_tokens * 0.001625 / 1000, in units of 1e-9 dollars
Cost(total_tokens) == total_tokens * 1625

\* generate_response up to the call: the user message is appended to messages
WithUserMessage(ss, prompt) ==
    [ss EXCEPT !.messages = Append(@, Message("user", prompt))]

\* generate_response after the call and the appends of the form handler
WithResponse(ss, prompt, completion) ==
    [ss EXCEPT !.messages = Append(@, Message("assistant", completion.content)),
               !.past = Append(@, prompt),
               !.generated = Append(@, completion.content),
               !.model_name = Append(@, model[1]),
               !.total_tokens = Append(@, completion.total_tokens),
               !.cost = Append(@, Cost(completion.total_tokens)),
               !.total_cost = @ + Cost(completion.total_tokens)]

\* "if submit_button and user_input:": generate_response(user_input) and the
\* appends to the session lists; an exception of the completion call is not
\* caught and ends the execution
SubmitForm ==
    /\ pc = "form"
    /\ \E user_input \in UserInputs :
         IF event = "send" /\ user_input # ""
         THEN \/ \E completion \in Completions :
                   /\ session_state' =
                        WithResponse(WithUserMessage(session_state, user_input),
                                     user_input, completion)
                   /\ pc' = "idle"
              \/ /\ session_state' = WithUserMessage(session_state, user_input)
                 /\ pc' = "crashed"
         ELSE /\ pc' = "idle"
              /\ UNCHANGED session_state
    /\ UNCHANGED <<envVars, event, callVars, runs, resolveCalls, frameVars, exc,
                   azure_credential, listVars, handlerVars, ui>>

\* the user presses Clear Conversation or Send, or changes another widget, once
\* the page is rendered
Interact ==
    /\ pc \in {"idle", "crashed"}
    /\ \E ev \in {"none", "clear", "send"} : StartExecution(ev)

(***************************************************************************)
(* Specifications                                                          *)
(***************************************************************************)
InitScript ==
    /\ pc = "start"
    /\ runs = 1
    /\ resolveCalls = 0
    /\ attempts = <<>>
    /\ tokenRequests = 0
    /\ test_token = "unbound"
    /\ ret = NoCredential
    /\ exc = None
    /\ azure_credential = NoCredential
    /\ deployments = <<>>
    /\ deployment_count = 0
    /\ iterFailed = FALSE
    /\ error_str = None
    /\ kind = "none"
    /\ detail = None
    /\ ui = {}
    /\ shownCount = 0
    /\ model = None
    /\ clientCalls = 0
    /\ listCalls = 0
    /\ apiPages = <<>>
    /\ event = "none"
    /\ session_state = NoKeys

\* the script up to the model selection, executed up to MaxRuns times
Init ==
    /\ env \in ScriptEnvs
    /\ dockerenv = FALSE
    /\ certReadable = FALSE
    /\ interactiveLoginOk \in BOOLEAN
    /\ InitScript

Resolve ==
    \/ TryManagedIdentity
    \/ TryServicePrincipalSecret
    \/ TryCertificate
    \/ TryInteractiveBrowser
    \/ TryDeviceCode
    \/ TryAzureCli
    \/ TryDefaultChain

Next ==
    \/ ValidateRequired
    \/ CreateOpenAIClient
    \/ CallCreateAzureCredential
    \/ Resolve
    \/ CreateManagementClient
    \/ ListDeployments
    \/ IterateResults
    \/ ReportCount
    \/ HandleException
    \/ CheckDeployments
    \/ SelectModel
    \/ Rerun

Spec == Init /\ [][Next]_vars

\* one call of create_azure_credential, from every authentication setting
InitResolve ==
    /\ env \in ResolveEnvs
    /\ dockerenv \in BOOLEAN
    /\ certReadable \in (IF Truthy(env.AZURE_CLIENT_CERTIFICATE_PATH)
                         THEN BOOLEAN ELSE {FALSE})
    /\ interactiveLoginOk \in BOOLEAN
    /\ InitScript

NextResolve ==
    \/ ValidateRequired
    \/ CreateOpenAIClient
    \/ CallCreateAzureCredential
    \/ Resolve

SpecResolve == InitResolve /\ [][NextResolve]_vars

\* the whole script with the chat, from one setting
ChatEnvs ==
    [AZURE_OPENAI_ENDPOINT : {Some("https://aoai")},
     AZURE_OPENAI_KEY : {Some("key")},
     SUBSCRIPTION_ID : {Some("sub")},
     RESOURCE_GROUP_NAME : {Some("rg")},
     AOAI_ACCOUNT_NAME : {Some("aoai")},
     USE_MANAGED_IDENTITY : {Some("True")},
     AZURE_CLIENT_ID : {None},
     AZURE_CLIENT_SECRET : {None},
     AZURE_TENANT_ID : {None},
     AZURE_CLIENT_CERTIFICATE_PATH : {None},
     USE_INTERACTIVE_AUTH : {Some("false")},
     USE_DEVICE_CODE : {Some("1")},
     DOCKER_CONTAINER : {Some("true")}]

InitChat ==
    /\ env \in ChatEnvs
    /\ dockerenv = FALSE
    /\ certReadable = FALSE
    /\ interactiveLoginOk = TRUE
    /\ InitScript

NextChat ==
    \/ Next
    \/ InitSessionState
    \/ ClearConversation
    \/ SubmitForm
    \/ Interact

SpecChat == InitChat /\ [][NextChat]_vars


(***************************************************************************)
(* Properties of create_azure_credential (checked under SpecResolve)       *)
(***************************************************************************)
Attempted(i) == \E k \in DOMAIN attempts : attempts[k].strategy = i
FailedAt(i) == \E k \in DOMAIN attempts : attempts[k] = Outcome(i, "Failed")
Succeeded(i) == \E k \in DOMAIN attempts : attempts[k] = Outcome(i, "Success")
ResolveEnded == pc \in {"return", "except"}

\* the guard of strategy i has been evaluated
Evaluated(i) ==
    \/ \E j \in (i + 1)..7 : pc = Method(j)
    \/ pc = "except"
    \/ pc = "return" /\ ret.strategy >= i

\* C1: the strategies are tried in the order 1..7, only applicable ones are
\* attempted, the credential returned is that of the first attempt that succeeded
\* (every applicable strategy before it was attempted and failed), and nothing is
\* attempted after a success; so a successful Managed Identity is returned without
\* the Service Principal ever being attempted.
C1_FirstSuccessInOrder ==
    /\ \A k \in DOMAIN attempts : IsApplicable(attempts[k].strategy)
    /\ \A k \in 1..(Len(attempts) - 1) :
         /\ attempts[k].strategy < attempts[k + 1].strategy
         /\ attempts[k].outcome = "Failed"
    /\ \A j \in Strategies :
         pc = Method(j) =>
           /\ \A i \in 1..(j - 1) : IsApplicable(i) => FailedAt(i)
           /\ \A i \in j..7 : ~Attempted(i)
    /\ pc # "return" => \A i \in Strategies : ~Succeeded(i)
    /\ pc = "return" =>
         /\ ret.strategy \in Strategies
         /\ ret = Credential(ret.strategy)
         /\ attempts[Len(attempts)] = Outcome(ret.strategy, "Success")
         /\ \A i \in 1..(ret.strategy - 1) : IsApplicable(i) => FailedAt(i)
         /\ \A i \in (ret.strategy + 1)..7 : ~Attempted(i)
    /\ Succeeded(1) => attempts = <<Outcome(1, "Success")>> /\ ~Attempted(2)

C1_Witness ==
    /\ pc = "return"
    /\ IsApplicable(1) /\ IsApplicable(2)
    /\ ret.strategy = 1
    /\ StrategyName[ret.strategy] = "ManagedIdentity"
    /\ ~Attempted(2)

\* C2: create_azure_credential ends either by returning a credential (never an
\* empty one) or by raising "All authentication methods failed", and it raises
\* exactly when each of the seven strategies was skipped or failed.
C2_CredentialOrExhausted ==
    /\ pc = "return" => ret # NoCredential /\ ret.strategy \in Strategies /\ exc = None
    /\ pc = "except" => exc = Some(AllFailedMsg) /\ ret = NoCredential
    /\ ResolveEnded =>
         (pc = "except" <=> \A i \in Strategies : ~IsApplicable(i) \/ FailedAt(i))
    /\ ~ResolveEnded => exc = None /\ ret = NoCredential

C2_Witness ==
    /\ pc = "except"
    /\ exc = Some(AllFailedMsg)
    /\ FailedAt(7)
    /\ \E i \in 1..6 : FailedAt(i)
    /\ \E i \in 1..6 : ~IsApplicable(i)

\* C3: with client id, tenant id and a certificate path set but the certificate
\* file missing or unreadable, the certificate strategy's attempt is a failure that
\* is caught, and the chain goes on with strategy 4 and those after it.
C3_MissingCertificateFallsThrough ==
    (IsApplicable(3) /\ ~certReadable /\ Attempted(3)) =>
        /\ FailedAt(3)
        /\ ret.strategy # 3
        /\ pc \in {Method(j) : j \in 4..7} \cup {"return", "except"}
        /\ ~Evaluated(4) => pc = Method(4) /\ exc = None
        /\ pc = "except" => FailedAt(7)
        /\ ResolveEnded => \A i \in 4..7 : IsApplicable(i) /\ ret.strategy # i =>
                                (IF pc = "return" /\ ret.strategy < i
                                 THEN ~Attempted(i) ELSE FailedAt(i))

C3_Witness ==
    /\ IsApplicable(3) /\ ~certReadable /\ FailedAt(3)
    /\ IsApplicable(4)
    /\ pc = "return"
    /\ ret.strategy = 4

\* C4 as stated: the Azure CLI strategy is attempted iff nothing before it
\* succeeded and the process is not containerized, and when attempted it issues
\* exactly one token request.
C4_ExactlyOneTokenRequest ==
    /\ Evaluated(6) => (Attempted(6) <=> IsApplicable(6))
    /\ Evaluated(6) /\ Attempted(6) => tokenRequests = 1
    /\ ~Attempted(6) => tokenRequests = 0

\* C4 (amended): the Azure CLI strategy is attempted iff nothing before it
\* succeeded and the process is not containerized; it issues at most one token
\* request (none when the CLI credential cannot be constructed), is returned only
\* when that one request yielded a token, and otherwise falls through to the
\* Default Chain; no other strategy issues a token request, and none is issued in
\* a container.
C4_CliProbedAtMostOnce ==
    /\ Evaluated(6) => (Attempted(6) <=> IsApplicable(6))
    /\ Attempted(6) => \A i \in 1..5 : ~Succeeded(i)
    /\ tokenRequests \in {0, 1}
    /\ ~Attempted(6) => tokenRequests = 0 /\ test_token = "unbound"
    /\ ~IsApplicable(6) => tokenRequests = 0
    /\ pc = "return" /\ ret.strategy = 6 => tokenRequests = 1 /\ test_token = "token"
    /\ test_token # "unbound" => tokenRequests = 1
    /\ FailedAt(6) => pc = Method(7) \/ Attempted(7)

C4_Witness ==
    /\ pc = "return"
    /\ ret.strategy = 6
    /\ tokenRequests = 1
    /\ Len(attempts) > 1

\* C5 as stated: when the Interactive Browser strategy is applicable and the
\* interactive login fails, the strategy fails, the resolver goes on with Device
\* Code, and the interactive credential is not returned.
C5_FailedLoginNotReturned ==
    (IsApplicable(4) /\ Attempted(4) /\ ~interactiveLoginOk) =>
        FailedAt(4) /\ ret.strategy # 4

\* C5 (amended): when the Interactive Browser strategy is applicable and
\* constructing its credential raises, the strategy fails, the resolver goes on
\* with Device Code and the later strategies, and no interactive credential is
\* returned; no login or token request is made for it during resolution, so a
\* constructed interactive credential is returned whether or not a login would
\* succeed.
C5_FailedConstructionFallsThrough ==
    /\ FailedAt(4) =>
         /\ ret.strategy # 4
         /\ pc \in {Method(j) : j \in 5..7} \cup {"return", "except"}
         /\ ~Evaluated(5) => pc = Method(5) /\ exc = None
         /\ pc = "except" => FailedAt(7)
         /\ ResolveEnded => \A i \in 5..7 : IsApplicable(i) /\ ret.strategy # i =>
                                 (IF pc = "return" /\ ret.strategy < i
                                  THEN ~Attempted(i) ELSE FailedAt(i))
    /\ Succeeded(4) => pc = "return" /\ ret = Credential(4) /\ tokenRequests = 0

C5_Witness ==
    /\ FailedAt(4)
    /\ ~interactiveLoginOk
    /\ pc = "return"
    /\ ret.strategy = 5

(***************************************************************************)
(* Properties of the script (checked under Spec)                           *)
(***************************************************************************)
Kinds ==
    {"ResourceNotFound", "AuthenticationFailed", "Forbidden", "SubscriptionNotFound",
     "Unknown"}

Codes ==
    {"ResourceNotFound", "NotFound", "AuthenticationFailed", "Unauthorized",
     "Forbidden", "InsufficientPermissions", "SubscriptionNotFound"}

\* C6: credential resolution is performed once per process and the credential,
\* once obtained, is never replaced, whatever happens afterwards (listing
\* failures, user interactions that execute the script again).
C6_ResolvedOncePerProcess ==
    /\ resolveCalls <= 1
    /\ azure_credential # NoCredential => azure_credential.serial = 1

\* C7 as stated: a failed listing leaves deployments empty and is classified by
\* substring: 'ResourceNotFound' gives ResourceNotFound, 'Forbidden' gives
\* Forbidden, none of the codes gives Unknown with the message shown verbatim.
C7_ForbiddenAlwaysForbidden ==
    kind # "none" =>
        /\ deployments = <<>>
        /\ Contains(error_str[1], "ResourceNotFound") => kind = "ResourceNotFound"
        /\ Contains(error_str[1], "Forbidden") => kind = "Forbidden"
        /\ (\A c \in Codes : ~Contains(error_str[1], c)) =>
              kind = "Unknown" /\ detail = error_str

\* C7 (amended): a failed listing never propagates: the handler leaves deployments
\* empty and classifies the error text by the first matching branch:
\* 'ResourceNotFound' gives ResourceNotFound; 'Forbidden' gives Forbidden
\* provided the text contains none of 'NotFound', 'AuthenticationFailed',
\* 'Unauthorized', which are tested before it; a text with none of the codes
\* gives Unknown with the message shown verbatim.
C7_FirstMatchClassification ==
    /\ exc # None => pc = "except"
    /\ kind # "none" =>
        /\ exc = None
        /\ pc \in {"gate", "stopped"}
        /\ deployments = <<>>
        /\ error_str # None
        /\ Contains(error_str[1], "ResourceNotFound") => kind = "ResourceNotFound"
        /\ ( /\ Contains(error_str[1], "Forbidden")
             /\ ~Contains(error_str[1], "NotFound")
             /\ ~Contains(error_str[1], "AuthenticationFailed")
             /\ ~Contains(error_str[1], "Unauthorized") ) => kind = "Forbidden"
        /\ (\A c \in Codes : ~Contains(error_str[1], c)) =>
              kind = "Unknown" /\ detail = error_str
        /\ detail # None => detail = error_str

C7_Witness ==
    /\ pc = "stopped"
    /\ kind = "Forbidden"
    /\ Contains(error_str[1], "Forbidden")
    /\ Contains(error_str[1], "InsufficientPermissions")
    /\ deployments = <<>>

\* C8: every listing failure is mapped to one of the five kinds, and an error
\* text carrying the code 'SubscriptionNotFound' is mapped to SubscriptionNotFound.
C8_SubscriptionNotFoundKind ==
    kind # "none" =>
        /\ kind \in Kinds
        /\ Contains(error_str[1], "SubscriptionNotFound") =>
              kind = "SubscriptionNotFound"

\* C10: when iterating the results fails after k >= 0 deployments were collected,
\* the partial results are discarded and the run is that of an account without
\* deployments: no success message, the "no deployments found" warning, the stop.
C10_IterationFailureAsEmpty ==
    iterFailed =>
        /\ deployments = <<>>
        /\ model = None
        /\ pc \in {"report", "gate", "stopped"}
        /\ "foundDeployments" \notin ui
        /\ shownCount = 0
        /\ pc \in {"gate", "stopped"} => "connectedNoDeployments" \in ui


\* the call of create_azure_credential ended with "All authentication methods failed"
Exhausted == exc = Some(AllFailedMsg) \/ error_str = Some(AllFailedMsg)

\* C11: when credential resolution ends in "All authentication methods failed",
\* the management client is never constructed, deployments.list is never called
\* and the execution stops before the model selection and the chat; and
\* deployments.list is only ever called with a credential that this execution's
\* resolution returned.
C11_ExhaustionIsFatal ==
    /\ Exhausted =>
         /\ clientCalls = 0
         /\ listCalls = 0
         /\ azure_credential = NoCredential
         /\ deployments = <<>>
         /\ model = None
         /\ pc \in {"except", "gate", "stopped"}
    /\ clientCalls > 0 =>
         /\ clientCalls = 1
         /\ azure_credential.strategy \in Strategies
         /\ azure_credential.serial = resolveCalls
    /\ listCalls > 0 => listCalls = 1 /\ clientCalls = 1
    /\ pc \in {"select", "done"} => listCalls = 1 /\ ~Exhausted

C11_Witness ==
    /\ pc = "stopped"
    /\ error_str = Some(AllFailedMsg)
    /\ kind = "Unknown"
    /\ "appStopped" \in ui
    /\ clientCalls = 0
    /\ listCalls = 0


RECURSIVE Flatten(_)
\* the items of the pages, page after page
Flatten(pages) ==
    IF pages = <<>> THEN <<>> ELSE pages[1] \o Flatten(Tail(pages))

\* C12: when deployments.list and the loop over its result succeed, deployments
\* holds exactly the names the API returned, in page order and in order within
\* each page, each once.
C12_NamesInPageOrder ==
    /\ pc = "iter" => deployments = Flatten(apiPages)
    /\ (listCalls = 1 /\ kind = "none" /\ ~iterFailed
          /\ pc \in {"report", "gate", "select", "done", "stopped"}) =>
         /\ deployments = Flatten(apiPages)
         /\ Len(deployments) = Cardinality(Range(deployments))
         /\ deployment_count = Len(deployments)
    /\ model # None => model[1] \in Range(Flatten(apiPages))

C12_Witness ==
    /\ pc = "done"
    /\ ~iterFailed
    /\ apiPages = << <<"gpt-4">>, <<"gpt-35-turbo">> >>
    /\ deployments = <<"gpt-4", "gpt-35-turbo">>


\* C13: the count shown to the user equals the number of names in deployments:
\* "Found N deployment(s)" is shown only when deployments holds exactly N > 0
\* names, and an execution reaches at most one of that message and the "no
\* deployments found" stop.
C13_CountMatchesList ==
    /\ "foundDeployments" \in ui =>
         /\ shownCount > 0
         /\ shownCount = Len(deployments)
    /\ ~("foundDeployments" \in ui /\ "appStopped" \in ui)


(***************************************************************************)
(* Properties of the chat (checked under SpecChat)                         *)
(***************************************************************************)
\* C14: after any sequence of Send (the completion call returning or raising)
\* and Clear Conversation, the session lists past, generated, model_name, cost and
\* total_tokens have the same length n, and messages is the system seed followed
\* by exactly n user/assistant pairs; Clear Conversation leaves n = 0 and messages
\* with the seed alone.
C14_SessionListsAligned ==
    "messages" \in DOMAIN session_state =>
        LET ss == session_state
            n == Len(ss.past)
        IN  /\ Len(ss.generated) = n
            /\ Len(ss.model_name) = n
            /\ Len(ss.cost) = n
            /\ Len(ss.total_tokens) = n
            /\ Len(ss.messages) = 1 + 2 * n
            /\ ss.messages[1] = seed_message
            /\ \A i \in 1..n :
                 /\ ss.messages[2 * i] = Message("user", ss.past[i])
                 /\ ss.messages[2 * i + 1] = Message("assistant", ss.generated[i])
            /\ (event = "clear" /\ pc = "form") =>
                 n = 0 /\ ss.messages = <<seed_message>>

====
